---- MODULE Spec2Model ----
(***************************************************************************)
(* Model of examples/csv_writer.py: main() appends a header (new file      *)
(* only) and then one CSV record per period to a line-buffered text file   *)
(* until it is interrupted.                                                *)
(*                                                                         *)
(* Granularity: one step per source statement.  KeyboardInterrupt is       *)
(* raised by the interpreter between statements (or out of time.sleep),    *)
(* so the Interrupt action is enabled at every program position.           *)
(*                                                                         *)
(* File I/O: open(path, "a", buffering=1) gives a line-buffered text file  *)
(* over a BufferedWriter.  Every f.write() of a text ending in "\n" hands  *)
(* the line to the BufferedWriter (buf) and flushes it to the OS (disk)    *)
(* in the same call.  When the OS write fails, OSError is raised and the   *)
(* line STAYS in buf; a later flush tries again.  A flush with an empty    *)
(* buf performs no system call and cannot fail.  A line reaches the disk   *)
(* whole or not at all.                                                    *)
(*                                                                         *)
(* Time: the monotonic clock is counted in ticks of 200 us (the sleep      *)
(* quantum), DT_S is 5 ticks.  The model ends when main() returns or       *)
(* raises; handle records what the statements of main() did to the file    *)
(* object.                                                                 *)
(***************************************************************************)
EXTENDS Integers, Sequences, FiniteSets, TLC

\* ---- program constants ----
IndexBits == 2
Period == 5
SleepTicks == 1
FS_HZ == 1000
F_HZ == 3

\* ---- bounds of the model ----
MaxRecords == 5
MaxInterrupts == 2
MaxT0 == 1
MaxCarry == 1
MaxOverrun == 2

IndexModulus == 2 ^ IndexBits
\* Largest clock value of the model: the latest first reading t0 plus the
\* last deadline, so that no deadline lies beyond the values the clock can take.
MaxClock == MaxT0 + MaxRecords * Period + 1
\* Two distinct values now_us() may return; the wall clock may also step back.
Timestamps == {0, 1}
ClockSteps == {0, 1} \cup {k * Period + 1 : k \in 1 .. MaxOverrun}

VARIABLES
    pc,        \* position in main()
    exists,    \* the path exists in the file system
    disk,      \* content of the file, a sequence of lines
    existed0,  \* history: the path existed at process start
    disk0,     \* history: content of the file at process start
    new_file,  \* local new_file
    handle,    \* "unopened", "open", "closed": state of the file object f
    buf,       \* lines held by f's BufferedWriter, not yet handed to the OS
    n,         \* local n (-1: not yet assigned)
    next_t,    \* local next_t (-1: not yet assigned)
    now,       \* local now (-1: not yet assigned)
    t0,        \* history: value next_t was initialised with (-1: never)
    clock,     \* monotonic clock: the value its last call returned (at start: its first call will return)
    exc,       \* exception pending while the finally clause runs
    exit,      \* process exit status (-1: still running)
    sigints,   \* number of interruptions delivered so far
    nFlushed,  \* history: number of completed f.flush() calls of line 54
    intFlushed,\* history: nFlushed when the loop was first interrupted (-1: never)
    intWritten,\* history: records of this run on disk at that moment (-1: never)
    failAt,    \* history: nFlushed when a write raised OSError (-1: never)
    finFlushed \* history: the f.flush() of the finally clause has completed

vars == <<pc, exists, disk, existed0, disk0, new_file, handle, buf, n, next_t,
          now, t0, clock, exc, exit, sigints, nFlushed, intFlushed, intWritten,
          failAt, finFlushed>>

fileVars == <<exists, disk, buf>>
loopVars == <<n, next_t, now, t0>>
histVars == <<existed0, disk0, nFlushed, intFlushed, intWritten, failAt, finFlushed>>

\* ---- lines of the file ----
Header == [kind |-> "header", index |-> 0, ts |-> 0, angle |-> 0]

\* Argument of sin/cos for sample n, in 1/FS_HZ of a turn: 2*pi*F_HZ*(n/FS_HZ).
Angle(i) == (F_HZ * i) % FS_HZ

\* Mutant of Record: the waveform is evaluated at the wall-clock time of the
\* sample instead of the logical time n / FS_HZ.
Record_AtTimestamp(i, ts) == [kind |-> "record", index |-> i, ts |-> ts, angle |-> Angle(ts)]

Record(i, ts) == [kind |-> "record", index |-> i, ts |-> ts, angle |-> Angle(i)]

\* Possible states of the target path at process start: absent, present and
\* empty, present with the output of an earlier run.
PriorFiles ==
    { [exists |-> FALSE, content |-> << >>],
      [exists |-> TRUE,  content |-> << >>],
      [exists |-> TRUE,  content |-> <<Header, Record(0, 0)>>] }

Min(a, b) == IF a <= b THEN a ELSE b

\* Values a call of time.perf_counter() may return: never below the last one.
Readings == { Min(clock + d, MaxClock) : d \in ClockSteps }

\* Lines appended to the file since process start.
RunLines == SubSeq(disk, Len(disk0) + 1, Len(disk))
RunRecords == SelectSeq(RunLines, LAMBDA l : l.kind = "record")
RunHeaders == SelectSeq(RunLines, LAMBDA l : l.kind = "header")

TryPcs == {"hdr", "init", "write", "flush", "inc", "adv", "check", "sleep"}
LoopPcs == {"write", "flush", "inc", "adv", "check", "sleep"}

Init ==
    /\ pc = "start"
    /\ \E p \in PriorFiles :
          /\ exists = p.exists
          /\ disk = p.content
          /\ existed0 = p.exists
          /\ disk0 = p.content
    /\ new_file = FALSE
    /\ handle = "unopened"
    /\ buf = << >>
    /\ n = -1
    /\ next_t = -1
    /\ now = -1
    /\ t0 = -1
    /\ clock \in 0 .. MaxT0
    /\ exc = "none"
    /\ exit = -1
    /\ sigints = 0
    /\ nFlushed = 0
    /\ intFlushed = -1
    /\ intWritten = -1
    /\ failAt = -1
    /\ finFlushed = FALSE

\* Mutant of CheckExists: the test is inverted.
CheckExists_Inverted ==
    /\ pc = "start"
    /\ new_file' = exists
    /\ pc' = "open"
    /\ UNCHANGED <<fileVars, loopVars, histVars, handle, clock, exc, exit, sigints>>

\* line 38
CheckExists ==
    /\ pc = "start"
    /\ new_file' = ~exists
    /\ pc' = "open"
    /\ UNCHANGED <<fileVars, loopVars, histVars, handle, clock, exc, exit, sigints>>

\* Mutant of OpenOk: the file is opened in mode "w", which truncates it.
OpenOk_Truncate ==
    /\ pc = "open"
    /\ handle' = "open"
    /\ exists' = TRUE
    /\ disk' = << >>
    /\ pc' = "try"
    /\ UNCHANGED <<buf, new_file, loopVars, histVars, clock, exc, exit, sigints>>

\* line 40, open succeeds: mode "a" creates the file when absent and never
\* truncates it.
OpenOk ==
    /\ pc = "open"
    /\ handle' = "open"
    /\ exists' = TRUE
    /\ pc' = "try"
    /\ UNCHANGED <<disk, buf, new_file, loopVars, histVars, clock, exc, exit, sigints>>

\* Mutant of OpenFail: open() sits inside the try statement, so the finally
\* clause runs after the failure.
OpenFail_InTry ==
    /\ pc = "open"
    /\ exc' = "OSError"
    /\ pc' = "fin_flush"
    /\ UNCHANGED <<fileVars, new_file, handle, loopVars, histVars, clock, exit, sigints>>

\* line 40, open raises OSError: outside the try statement, main() is left.
OpenFail ==
    /\ pc = "open"
    /\ exit' = 1
    /\ pc' = "done"
    /\ UNCHANGED <<fileVars, new_file, handle, loopVars, histVars, clock, exc, sigints>>

\* line 41
EnterTry ==
    /\ pc = "try"
    /\ pc' = "hdr"
    /\ UNCHANGED <<fileVars, new_file, handle, loopVars, histVars, clock, exc, exit, sigints>>

\* An OSError raised inside the try statement: no except clause matches, the
\* finally clause runs with the exception pending.
RaiseOSError ==
    /\ pc' = "fin_flush"
    /\ exc' = "OSError"
    /\ failAt' = IF failAt = -1 THEN nFlushed ELSE failAt

\* Mutant of FWriteOk: no line buffering, the line waits in the BufferedWriter
\* for the next flush.
FWriteOk_Buffered(line) ==
    /\ buf' = buf \o <<line>>
    /\ disk' = disk

\* f.write(line) succeeds: line buffering hands buf and the line to the OS.
FWriteOk(line) ==
    /\ disk' = disk \o buf \o <<line>>
    /\ buf' = << >>

\* f.write(line) raises OSError: the line stays in the BufferedWriter.
FWriteFail(line) ==
    /\ buf' = buf \o <<line>>
    /\ disk' = disk

\* Mutant of WriteHeader: the header is written whether or not the file is new.
WriteHeader_Always ==
    /\ pc = "hdr"
    /\ FWriteOk(Header)
    /\ pc' = "init"
    /\ UNCHANGED <<exists, new_file, handle, loopVars, histVars, clock, exc, exit, sigints>>

\* lines 42-43, normal completion
WriteHeader ==
    /\ pc = "hdr"
    /\ IF new_file THEN FWriteOk(Header) ELSE UNCHANGED <<disk, buf>>
    /\ pc' = "init"
    /\ UNCHANGED <<exists, new_file, handle, loopVars, histVars, clock, exc, exit, sigints>>

\* line 43, the write raises OSError
WriteHeaderFail ==
    /\ pc = "hdr"
    /\ new_file
    /\ FWriteFail(Header)
    /\ RaiseOSError
    /\ UNCHANGED <<exists, existed0, disk0, nFlushed, intFlushed, intWritten,
                   finFlushed, new_file, handle, loopVars, clock, exit, sigints>>

\* Mutant of InitLoop: the counter resumes after the records already in the file.
InitLoop_Resume ==
    /\ pc = "init"
    /\ n' = Len(SelectSeq(disk0, LAMBDA l : l.kind = "record")) % IndexModulus
    /\ next_t' = clock
    /\ t0' = clock
    /\ pc' = "write"
    /\ UNCHANGED <<fileVars, new_file, handle, now, histVars, clock, exc, exit, sigints>>

\* Mutant of InitLoop: the counter starts at 1.
InitLoop_FromOne ==
    /\ pc = "init"
    /\ n' = 1
    /\ next_t' = clock
    /\ t0' = clock
    /\ pc' = "write"
    /\ UNCHANGED <<fileVars, new_file, handle, now, histVars, clock, exc, exit, sigints>>

\* lines 45-47.  The first call of time.perf_counter() returns the clock's
\* starting value: the origin of the monotonic clock is arbitrary (Init), so
\* the time spent before this call is part of that choice.
InitLoop ==
    /\ pc = "init"
    /\ n' = 0
    /\ next_t' = clock
    /\ t0' = clock
    /\ pc' = "write"
    /\ UNCHANGED <<fileVars, new_file, handle, now, histVars, clock, exc, exit, sigints>>

\* Mutant of WriteRecord: the per-record flush of line 54 is left out.
WriteRecord_NoFlush ==
    /\ pc = "write"
    /\ Len(RunRecords) < MaxRecords
    /\ \E ts \in Timestamps : FWriteOk(Record(n, ts))
    /\ pc' = "inc"
    /\ UNCHANGED <<exists, new_file, handle, loopVars, histVars, clock, exc, exit, sigints>>

\* lines 49-53, normal completion
WriteRecord ==
    /\ pc = "write"
    /\ Len(RunRecords) < MaxRecords
    /\ \E ts \in Timestamps : FWriteOk(Record(n, ts))
    /\ pc' = "flush"
    /\ UNCHANGED <<exists, new_file, handle, loopVars, histVars, clock, exc, exit, sigints>>

\* Mutant of WriteRecordFail: the error is swallowed and the loop goes on.
WriteRecordFail_Continue ==
    /\ pc = "write"
    /\ Len(RunRecords) < MaxRecords
    /\ \E ts \in Timestamps : FWriteFail(Record(n, ts))
    /\ failAt' = IF failAt = -1 THEN nFlushed ELSE failAt
    /\ pc' = "flush"
    /\ UNCHANGED <<exists, existed0, disk0, nFlushed, intFlushed, intWritten,
                   finFlushed, new_file, handle, loopVars, clock, exc, exit, sigints>>

\* line 53, the write raises OSError
WriteRecordFail ==
    /\ pc = "write"
    /\ Len(RunRecords) < MaxRecords
    /\ \E ts \in Timestamps : FWriteFail(Record(n, ts))
    /\ RaiseOSError
    /\ UNCHANGED <<exists, existed0, disk0, nFlushed, intFlushed, intWritten,
                   finFlushed, new_file, handle, loopVars, clock, exit, sigints>>

\* line 54: nothing is pending after a successful line-buffered write, so the
\* flush finds buf empty and completes.
Flush ==
    /\ pc = "flush"
    /\ disk' = disk \o buf
    /\ buf' = << >>
    /\ nFlushed' = nFlushed + 1
    /\ pc' = "inc"
    /\ UNCHANGED <<exists, new_file, handle, loopVars, existed0, disk0, intFlushed,
                   intWritten, failAt, finFlushed, clock, exc, exit, sigints>>

\* Mutant of Inc: the mask is missing, the counter grows past 2^IndexBits - 1.
Inc_NoWrap ==
    /\ pc = "inc"
    /\ n' = n + 1
    /\ pc' = "adv"
    /\ UNCHANGED <<fileVars, new_file, handle, next_t, now, t0, histVars, clock, exc, exit, sigints>>

\* Mutant of Inc: the counter skips a value.
Inc_Skip ==
    /\ pc = "inc"
    /\ n' = (n + 2) % IndexModulus
    /\ pc' = "adv"
    /\ UNCHANGED <<fileVars, new_file, handle, next_t, now, t0, histVars, clock, exc, exit, sigints>>

\* line 55
Inc ==
    /\ pc = "inc"
    /\ n' = (n + 1) % IndexModulus
    /\ pc' = "adv"
    /\ UNCHANGED <<fileVars, new_file, handle, next_t, now, t0, histVars, clock, exc, exit, sigints>>

\* Mutant of Adv: the deadline is derived from the clock, next_t = now + DT_S.
Adv_FromClock ==
    /\ pc = "adv"
    /\ next_t' = clock + Period
    /\ pc' = "check"
    /\ UNCHANGED <<fileVars, new_file, handle, n, now, t0, histVars, clock, exc, exit, sigints>>

\* line 57
Adv ==
    /\ pc = "adv"
    /\ next_t' = next_t + Period
    /\ pc' = "check"
    /\ UNCHANGED <<fileVars, new_file, handle, n, now, t0, histVars, clock, exc, exit, sigints>>

\* Mutant of Check: the comparison is strict, a reading equal to next_t sleeps.
Check_Strict ==
    /\ pc = "check"
    /\ \E r \in Readings :
          /\ clock' = r
          /\ now' = r
          /\ pc' = IF r > next_t THEN "write" ELSE "sleep"
    /\ UNCHANGED <<fileVars, new_file, handle, n, next_t, t0, histVars, exc, exit, sigints>>

\* Mutant of Check: the loop fires without comparing the reading with next_t.
Check_NoWait ==
    /\ pc = "check"
    /\ \E r \in Readings :
          /\ clock' = r
          /\ now' = r
          /\ pc' = "write"
    /\ UNCHANGED <<fileVars, new_file, handle, n, next_t, t0, histVars, exc, exit, sigints>>

\* lines 60-62
Check ==
    /\ pc = "check"
    /\ \E r \in Readings :
          /\ clock' = r
          /\ now' = r
          /\ pc' = IF r >= next_t THEN "write" ELSE "sleep"
    /\ UNCHANGED <<fileVars, new_file, handle, n, next_t, t0, histVars, exc, exit, sigints>>

\* Mutant of Sleep: the sleep returns without any time having passed.
Sleep_NoAdvance ==
    /\ pc = "sleep"
    /\ clock' = clock
    /\ pc' = "check"
    /\ UNCHANGED <<fileVars, new_file, handle, loopVars, histVars, exc, exit, sigints>>

\* line 64: at least the requested 200 us pass
Sleep ==
    /\ pc = "sleep"
    /\ clock' = Min(clock + SleepTicks, MaxClock)
    /\ pc' = "check"
    /\ UNCHANGED <<fileVars, new_file, handle, loopVars, histVars, exc, exit, sigints>>

\* Mutant of Interrupt: no except clause, a KeyboardInterrupt raised inside
\* the try statement stays pending through the finally clause.
Interrupt_Uncaught ==
    /\ pc # "done"
    /\ sigints < MaxInterrupts
    /\ sigints' = sigints + 1
    /\ IF intFlushed = -1 /\ pc \in LoopPcs
         THEN intFlushed' = nFlushed /\ intWritten' = Len(RunRecords)
         ELSE UNCHANGED <<intFlushed, intWritten>>
    /\ IF pc \in TryPcs \cup {"except"}
         THEN pc' = "fin_flush" /\ exc' = "KeyboardInterrupt" /\ exit' = exit
         ELSE pc' = "done" /\ exc' = "KeyboardInterrupt" /\ exit' = 130
    /\ UNCHANGED <<fileVars, new_file, handle, loopVars, existed0, disk0, nFlushed,
                   failAt, finFlushed, clock>>

\* KeyboardInterrupt raised at the current position.  Inside the try
\* statement (lines 42-64) the except clause of line 65 catches it.  In the
\* except clause (line 66) it replaces the handled exception and the finally
\* clause still runs.  Anywhere else (lines 35-40, 68-69, 71) it leaves
\* main(); the interpreter then terminates the process by SIGINT (status 130).
Interrupt ==
    /\ pc # "done"
    /\ sigints < MaxInterrupts
    /\ sigints' = sigints + 1
    /\ IF intFlushed = -1 /\ pc \in LoopPcs
         THEN intFlushed' = nFlushed /\ intWritten' = Len(RunRecords)
         ELSE UNCHANGED <<intFlushed, intWritten>>
    /\ IF pc \in TryPcs
         THEN pc' = "except" /\ exc' = "none" /\ exit' = exit
         ELSE IF pc = "except"
                THEN pc' = "fin_flush" /\ exc' = "KeyboardInterrupt" /\ exit' = exit
                ELSE pc' = "done" /\ exc' = "KeyboardInterrupt" /\ exit' = 130
    /\ UNCHANGED <<fileVars, new_file, handle, loopVars, existed0, disk0, nFlushed,
                   failAt, finFlushed, clock>>

\* line 66
Except ==
    /\ pc = "except"
    /\ pc' = "fin_flush"
    /\ UNCHANGED <<fileVars, new_file, handle, loopVars, histVars, clock, exc, exit, sigints>>

\* line 68, normal completion
FinFlush ==
    /\ pc = "fin_flush"
    /\ disk' = disk \o buf
    /\ buf' = << >>
    /\ finFlushed' = TRUE
    /\ pc' = "fin_close"
    /\ UNCHANGED <<exists, new_file, handle, loopVars, existed0, disk0, nFlushed,
                   intFlushed, intWritten, failAt, clock, exc, exit, sigints>>

\* line 68, the flush raises OSError (only possible with a line pending): the
\* new exception leaves the finally clause, line 69 is not executed.
FinFlushFail ==
    /\ pc = "fin_flush"
    /\ buf # << >>
    /\ exc' = "OSError"
    /\ exit' = 1
    /\ pc' = "done"
    /\ UNCHANGED <<fileVars, new_file, handle, loopVars, histVars, clock, sigints>>

\* Mutant of FinClose: the pending exception is swallowed (a return inside
\* the finally clause).
FinClose_Swallow ==
    /\ pc = "fin_close"
    /\ handle' = "closed"
    /\ pc' = "ret"
    /\ UNCHANGED <<fileVars, new_file, loopVars, histVars, clock, exc, exit, sigints>>

\* line 69, then the end of the finally clause: a pending exception is
\* re-raised and leaves main() (status 1 for OSError, 130 for
\* KeyboardInterrupt), otherwise control reaches line 71.
FinClose ==
    /\ pc = "fin_close"
    /\ handle' = "closed"
    /\ IF exc = "none"
         THEN pc' = "ret" /\ exit' = exit
         ELSE pc' = "done" /\ exit' = IF exc = "OSError" THEN 1 ELSE 130
    /\ UNCHANGED <<fileVars, new_file, loopVars, histVars, clock, exc, sigints>>

\* lines 71 and 75
Return ==
    /\ pc = "ret"
    /\ exit' = 0
    /\ pc' = "done"
    /\ UNCHANGED <<fileVars, new_file, handle, loopVars, histVars, clock, exc, sigints>>

Next ==
    \/ CheckExists
    \/ OpenOk
    \/ OpenFail
    \/ EnterTry
    \/ WriteHeader
    \/ WriteHeaderFail
    \/ InitLoop
    \/ WriteRecord
    \/ WriteRecordFail
    \/ Flush
    \/ Inc
    \/ Adv
    \/ Check
    \/ Sleep
    \/ Interrupt
    \/ Except
    \/ FinFlush
    \/ FinFlushFail
    \/ FinClose
    \/ Return

Spec == Init /\ [][Next]_vars

\* The statements of main(): every step but the arrival of an interruption.
ProgramStep ==
    \/ CheckExists
    \/ OpenOk
    \/ OpenFail
    \/ EnterTry
    \/ WriteHeader
    \/ WriteHeaderFail
    \/ InitLoop
    \/ WriteRecord
    \/ WriteRecordFail
    \/ Flush
    \/ Inc
    \/ Adv
    \/ Check
    \/ Sleep
    \/ Except
    \/ FinFlush
    \/ FinFlushFail
    \/ FinClose
    \/ Return

\* The interpreter keeps executing: a statement that can run eventually runs
\* (single thread, nothing else to schedule; time.sleep returns).
FairSpec == Init /\ [][Next]_vars /\ WF_vars(ProgramStep)

\* The process has ended and the script is started again on the same path
\* ("python3 examples/csv_writer.py path").  At the end of the old process the
\* interpreter finalises a file object that was left open: a line still
\* pending in its buffer is written out or lost.  Only files of at most
\* MaxCarry lines are carried into a further run.
Restart ==
    /\ pc = "done"
    /\ \E written \in BOOLEAN :
          disk' = IF written /\ handle = "open" THEN disk \o buf ELSE disk
    /\ Len(disk') <= MaxCarry
    /\ disk0' = disk'
    /\ existed0' = exists
    /\ exists' = exists
    /\ buf' = << >>
    /\ pc' = "start"
    /\ new_file' = FALSE
    /\ handle' = "unopened"
    /\ n' = -1
    /\ next_t' = -1
    /\ now' = -1
    /\ t0' = -1
    /\ clock' \in 0 .. MaxT0
    /\ exc' = "none"
    /\ exit' = -1
    /\ sigints' = 0
    /\ nFlushed' = 0
    /\ intFlushed' = -1
    /\ intWritten' = -1
    /\ failAt' = -1
    /\ finFlushed' = FALSE

\* Runs in sequence on a path that is absent before the first of them.
InitRuns == Init /\ ~exists

NextRuns ==
    \/ ProgramStep
    \/ Interrupt
    \/ Restart

SpecRuns == InitRuns /\ [][NextRuns]_vars

\* ======================= claims =======================

HeaderIfNew == IF existed0 THEN << >> ELSE <<Header>>
Opened == handle # "unopened"
HeaderInBuf == \E i \in 1 .. Len(buf) : buf[i].kind = "header"

C2_Original ==
    \A i \in 1 .. Len(RunRecords) : RunRecords[i].index = i - 1

\* C2 (amended): the first record of every run has index 0 whatever the file
\* contained, and each later record's index is the previous record's index
\* plus 1 modulo 2^IndexBits (after index 2^IndexBits - 1 comes 0): no gap and
\* no reordering, and no repeat within 2^IndexBits consecutive records.
C2_Indices ==
    /\ Len(RunRecords) > 0 => RunRecords[1].index = 0
    /\ \A i \in 2 .. Len(RunRecords) :
          RunRecords[i].index = (RunRecords[i - 1].index + 1) % IndexModulus
    /\ \A i, j \in 1 .. Len(RunRecords) :
          (i < j /\ j - i < IndexModulus) => RunRecords[i].index # RunRecords[j].index

C2_Witness ==
    /\ Len(disk0) > 0
    /\ Len(RunRecords) >= 3
    /\ RunRecords[3].index = 2

\* C3 (as stated): when the loop is interrupted after N records have been
\* written and flushed (N completed flushes of line 54), the file at exit
\* holds exactly N data lines of this run plus the header if the file was new.
\* Stated on the runs with that one interruption only.
C3_Original ==
    (pc = "done" /\ intFlushed >= 0 /\ sigints = 1) =>
        /\ Len(RunRecords) = intFlushed
        /\ Len(RunLines) = Len(HeaderIfNew) + intFlushed

\* C3 (amended): when the loop is interrupted after N records have been
\* written and flushed, the file from then on, and at exit, holds exactly the
\* complete data lines of the records whose write had completed before the
\* interruption (plus the header if the file was new): the N flushed records,
\* and one more (N+1 lines) exactly when the interruption falls between a
\* record's write (line 53) and its flush (line 54).  No record is missing,
\* none is added after the interruption, no line is partial.
C3_Durability ==
    intFlushed >= 0 =>
        /\ Len(RunRecords) = intWritten
        /\ intWritten \in {intFlushed, intFlushed + 1}
        /\ RunLines = HeaderIfNew \o RunRecords
        /\ buf = << >>

C3_Witness ==
    /\ pc = "done"
    /\ intFlushed >= 2
    /\ intWritten = intFlushed + 1
    /\ Len(RunRecords) = intWritten

\* C4 (as stated): whenever an interruption arrives while the loop is writing,
\* flushing or waiting, no further record is written, the final flush and then
\* the close are performed and the process exits with status 0.
C4_Original ==
    (pc = "done" /\ intFlushed >= 0) =>
        /\ Len(RunRecords) = intWritten
        /\ finFlushed
        /\ handle = "closed"
        /\ exit = 0

\* C4 (amended): whenever an interruption arrives while the loop is writing,
\* flushing or waiting, the loop is left and no further record is written;
\* provided no further interruption arrives before the process has exited,
\* the final flush and then the close are performed and the exit status is 0.
\* (A second interruption in the except clause makes the status non-zero; one
\* in the finally clause also skips the flush or the close.)
C4_Shutdown ==
    intFlushed >= 0 =>
        /\ pc \notin TryPcs
        /\ Len(RunRecords) = intWritten
        /\ (pc = "done" /\ sigints = 1) =>
              (finFlushed /\ handle = "closed" /\ exit = 0)

C4_Witness ==
    /\ pc = "done"
    /\ intFlushed >= 1
    /\ sigints = 1
    /\ exit = 0
    /\ handle = "closed"

\* C5 (as stated): on every termination path after a successful open the
\* handle ends closed, the close preceded by the final flush.  Stated on the
\* write-failure paths the claim names, with no interruption at all.
C5_Original ==
    (pc = "done" /\ Opened /\ sigints = 0) => (handle = "closed" /\ finFlushed)

\* C6 (as stated): in every run in which the open succeeds the process exits
\* with status 0, also after a failing write or flush.  Stated on the runs
\* that are never interrupted.
C6_Original ==
    (pc = "done" /\ Opened /\ sigints = 0) => exit = 0

\* C6 (amended): the exit status is 0 only for a run that opened the file, met
\* no write or flush failure and was ended by an interruption caught inside
\* the try statement, after which flush, close and return completed (always so
\* when that interruption is the only one and the handle got closed); it is
\* non-zero when the open fails and also when a write or flush raises OSError.
C6_ExitStatus ==
    pc = "done" =>
        /\ exit \in {0, 1, 130}
        /\ exit = 0 => (Opened /\ sigints >= 1 /\ failAt = -1 /\ handle = "closed" /\ finFlushed)
        /\ ~Opened => exit # 0
        /\ failAt >= 0 => exit # 0
        /\ (sigints = 1 /\ failAt = -1 /\ handle = "closed") => exit = 0

C6_Witness ==
    /\ pc = "done"
    /\ failAt >= 1
    /\ handle = "closed"
    /\ exit = 1

RecordWriteFailed == failAt >= 0 /\ t0 >= 0

C8_OpenFailure ==
    /\ [][(pc = "open" /\ handle' = "unopened" /\ sigints' = sigints) =>
             (pc' = "done" /\ exit' \notin {-1, 0})]_vars
    /\ []((pc = "done" /\ ~Opened) =>
             /\ exit \notin {-1, 0}
             /\ exists = existed0
             /\ disk = disk0
             /\ buf = << >>
             /\ n = -1
             /\ next_t = -1
             /\ t0 = -1
             /\ nFlushed = 0
             /\ ~finFlushed)

C8_Witness ==
    /\ pc = "done"
    /\ ~Opened
    /\ sigints = 0
    /\ exit = 1
    /\ ~existed0
    /\ ~exists

RecordCount == Len(RunRecords)

\* C9 (as stated): the k-th deadline t0 + k*Period yields exactly one record,
\* with index k, appended only after a reading >= t0 + k*Period (k >= 1).
C9_Original ==
    [][RecordCount' # RecordCount =>
          /\ RecordCount' = RecordCount + 1
          /\ RunRecords'[RecordCount + 1].index = RecordCount
          /\ RecordCount >= 1 => now >= t0 + RecordCount * Period]_vars

\* C9 (amended): for any behaviour of the monotonic clock every deadline fires
\* exactly once: the k-th deadline t0 + k*Period yields exactly one record, the
\* k-th of the run, with index k modulo 2^IndexBits, appended only after a
\* clock reading >= t0 + k*Period has been observed (k >= 1); when the loop is
\* about to write, next_t is that deadline, however late the reading is.
C9_Deadlines ==
    /\ [][RecordCount' # RecordCount =>
             /\ RecordCount' = RecordCount + 1
             /\ RunRecords'[RecordCount + 1].index = RecordCount % IndexModulus
             /\ RecordCount >= 1 => now >= t0 + RecordCount * Period]_vars
    /\ [](pc = "write" =>
             /\ next_t = t0 + RecordCount * Period
             /\ n = RecordCount % IndexModulus
             /\ RecordCount >= 1 => now >= next_t)

C9_Witness ==
    /\ RecordCount = 3
    /\ pc = "flush"
    /\ now >= t0 + 2 * Period + Period + 1
    /\ RunRecords[3].index = 2

\* C10: per cycle the steps are ordered write(k), flush(k), increment, advance
\* deadline, wait, write(k+1): exactly one flush of line 54 lies between two
\* consecutive record writes, and the wait never runs while a written record
\* has not been flushed.
C10_WriteFlushOrder ==
    /\ [][pc' # pc =>
             /\ pc' = "flush" => (pc = "write" /\ RecordCount' = RecordCount + 1)
             /\ pc' = "inc" => (pc = "flush" /\ nFlushed' = nFlushed + 1)
             /\ pc' = "adv" => pc = "inc"
             /\ pc' = "check" => pc \in {"adv", "sleep"}
             /\ pc' = "sleep" => pc = "check"
             /\ pc' = "write" => pc \in {"init", "check"}]_vars
    /\ [](pc \in {"write", "inc", "adv", "check", "sleep"} =>
             (nFlushed = RecordCount /\ buf = << >>))
    /\ [](pc = "flush" => nFlushed = RecordCount - 1)

C10_Witness ==
    /\ pc = "sleep"
    /\ RecordCount = 2
    /\ nFlushed = 2

\* C11: the deadline moves by exactly one period per written record and is
\* never taken from the clock: with k records written and the deadline
\* advanced for each of them (wait phase, and when the next record is about to
\* be written) next_t = t0 + k*Period, whatever the clock readings were; before
\* the advance of line 57 it is still t0 + (k-1)*Period.
C11_NoDrift ==
    /\ [][next_t' # next_t =>
             \/ (pc = "init" /\ next_t' = t0' /\ next_t' = clock)
             \/ (pc = "adv" /\ next_t' = next_t + Period)]_vars
    /\ [](pc \in {"write", "check", "sleep"} => next_t = t0 + nFlushed * Period)
    /\ [](pc \in {"flush", "inc", "adv"} => next_t = t0 + (RecordCount - 1) * Period)

C11_Witness ==
    /\ pc = "check"
    /\ RecordCount = 3
    /\ next_t = t0 + 3 * Period
    /\ clock > next_t + Period

\* C12: a sleep happens only after a reading strictly below next_t; a reading
\* >= next_t sends the loop to the next record without any sleep, so a cycle
\* that is already behind its deadline sleeps zero times.
C12_SleepOnlyWhenEarly ==
    /\ [][(pc = "check" /\ pc' \in {"write", "sleep"}) =>
             /\ now' >= clock
             /\ pc' = "sleep" <=> now' < next_t
             /\ pc' = "write" <=> now' >= next_t]_vars
    /\ [][pc' = "sleep" => pc \in {"check", "sleep"}]_vars
    /\ [](pc = "sleep" => now < next_t)

C12_Witness ==
    /\ pc = "write"
    /\ RecordCount = 2
    /\ now = next_t

HandleState ==
    CASE handle = "unopened" -> 0
      [] handle = "open" /\ pc \in {"try", "hdr"} -> 1
      [] handle = "open" -> 2
      [] OTHER -> 3

IsPrefix(a, b) == Len(a) <= Len(b) /\ SubSeq(b, 1, Len(a)) = a

\* C13: the handle moves Unopened -> Open(header pending) -> Open(streaming)
\* -> Closed and never backwards: it is opened at most once and never again
\* after the close, the file changes only while the handle is open (no record
\* is written in Unopened or Closed), and every change of the file appends at
\* its end (no truncation, no write in the middle).
C13_HandleLifecycle ==
    /\ [][HandleState' >= HandleState]_vars
    /\ [][handle' # handle =>
             \/ (handle = "unopened" /\ handle' = "open" /\ pc = "open")
             \/ (handle = "open" /\ handle' = "closed" /\ pc = "fin_close")]_vars
    /\ [][disk' # disk => (handle = "open" /\ handle' = "open" /\ IsPrefix(disk, disk'))]_vars
    /\ [](pc \in LoopPcs => handle = "open")

C13_Witness ==
    /\ pc = "done"
    /\ handle = "closed"
    /\ Len(disk0) > 0
    /\ RecordCount >= 2

\* C15: the counter wraps modulo 2^IndexBits: it always lies in
\* 0 .. 2^IndexBits - 1 once assigned, the record after the one with index
\* 2^IndexBits - 1 has index 0, and the increment at the maximum raises nothing
\* and leaves the loop running.
C15_Wraparound ==
    /\ [](n \in -1 .. IndexModulus - 1)
    /\ [](pc \in LoopPcs => n >= 0)
    /\ [][(pc = "inc" /\ n = IndexModulus - 1 /\ sigints' = sigints) =>
             (n' = 0 /\ pc' = "adv" /\ exc' = "none" /\ exit' = -1)]_vars
    /\ [](\A i \in 1 .. RecordCount - 1 :
             RunRecords[i].index = IndexModulus - 1 => RunRecords[i + 1].index = 0)

C15_Witness ==
    /\ RecordCount = IndexModulus + 1
    /\ RunRecords[IndexModulus].index = IndexModulus - 1
    /\ RunRecords[IndexModulus + 1].index = 0
    /\ pc = "check"

\* The (index, waveform) columns of a line, without its timestamp.
Waveform(l) == <<l.index, l.angle>>

\* C17: the waveform columns of a record depend on its position in the run
\* only: the i-th record of a run carries index (i-1) mod 2^IndexBits and the
\* waveform argument F_HZ * index / FS_HZ of a turn, for every choice of
\* monotonic-clock readings, sleeps and wall-clock timestamps; two runs can
\* therefore differ in the timestamp column only.
C17_WaveformFromIndex ==
    \A i \in 1 .. RecordCount :
        /\ Waveform(RunRecords[i]) =
              <<(i - 1) % IndexModulus, (F_HZ * ((i - 1) % IndexModulus)) % FS_HZ>>
        /\ RunRecords[i].ts \in Timestamps

C17_Witness ==
    /\ RecordCount >= 3
    /\ RunRecords[2].ts # RunRecords[3].ts
    /\ now > t0 + 2 * Period + 1
    /\ Waveform(RunRecords[3]) = <<2, 6>>

\* C19: counter and file stay in step: at the head of the loop, after the
\* increment and throughout the wait the number of records this run has
\* appended is congruent to n modulo 2^IndexBits (equal to n before the first
\* wrap); between a record's write and the increment it is congruent to n + 1;
\* n is incremented only with that record written and flushed.
C19_CounterInStep ==
    /\ [](pc \in {"write", "adv", "check", "sleep"} =>
             /\ n = RecordCount % IndexModulus
             /\ RecordCount < IndexModulus => n = RecordCount)
    /\ [](pc \in {"flush", "inc"} => (n + 1) % IndexModulus = RecordCount % IndexModulus)
    /\ [][(n' # n /\ n # -1) =>
             (pc = "inc" /\ nFlushed = RecordCount /\ buf = << >> /\ failAt = -1)]_vars

C19_Witness ==
    /\ pc = "inc"
    /\ RecordCount = IndexModulus + 1
    /\ n = 0

\* C16: the loop has no exit of its own: it is left only by an interruption
\* (or an I/O failure), and as long as neither happens every wait ends and the
\* next record is written: from every position of the loop the write of the
\* next record (the step into line 54, which appends exactly one record) is
\* eventually completed, for every number of records already written.
C16_LoopRunsOn ==
    /\ [][(pc \in LoopPcs /\ pc' \notin LoopPcs) =>
             (sigints' = sigints + 1 \/ failAt' >= 0)]_vars
    /\ [][pc' = "flush" => (pc = "write" /\ RecordCount' = RecordCount + 1)]_vars
    /\ (pc \in LoopPcs /\ pc # "flush" /\ RecordCount < MaxRecords)
          ~> (pc = "flush" \/ pc \notin LoopPcs)

C16_Witness ==
    /\ pc = "sleep"
    /\ RecordCount = MaxRecords - 1
    /\ sigints = 0
    /\ failAt = -1
    /\ clock > t0

IndexZeroLines == {i \in 1 .. Len(disk) : disk[i].kind = "record" /\ disk[i].index = 0}

\* C14: the file is append-only, within a run and from run to run, and a run
\* never looks at what it finds: the content at process start is a prefix of
\* the content at every later state, every step leaves the old content as a
\* prefix, and a run on a file left by an earlier run appends no header and
\* records starting again at index 0, so the file then holds index 0 twice
\* when the earlier run had written a record.
C14_AppendOnly ==
    /\ [][IsPrefix(disk, disk')]_vars
    /\ [](IsPrefix(disk0, disk))
    /\ [](existed0 =>
             /\ Len(RunHeaders) = 0
             /\ RecordCount > 0 => RunRecords[1].index = 0
             /\ (RecordCount > 0 /\ \E i \in 1 .. Len(disk0) :
                    disk0[i].kind = "record" /\ disk0[i].index = 0)
                  => Cardinality(IndexZeroLines) >= 2)

C14_Witness ==
    /\ existed0
    /\ disk0 = <<Record(0, 0)>>
    /\ RecordCount = 2
    /\ disk[2] = Record(0, 1)
    /\ Cardinality(IndexZeroLines) = 2
    /\ pc = "done"

HeaderLines == {i \in 1 .. Len(disk) : disk[i].kind = "header"}

\* C18: over any sequence of runs on a path that is absent at first, each run
\* possibly interrupted (or failing) at any point, the file never holds more
\* than one header line, and a header line, when present, is its first line.
C18_OneHeaderFirst ==
    /\ Cardinality(HeaderLines) <= 1
    /\ HeaderLines \subseteq {1}
    /\ \A i \in 1 .. Len(buf) : buf[i].kind = "header" => (disk = << >> /\ i = 1)

C18_Witness ==
    /\ existed0
    /\ disk0 = <<Header>>
    /\ HeaderLines = {1}
    /\ RecordCount >= 1
    /\ pc = "done"
    /\ sigints >= 1

TypeOK ==
    /\ pc \in {"start", "open", "try", "hdr", "init", "write", "flush", "inc", "adv",
               "check", "sleep", "except", "fin_flush", "fin_close", "ret", "done"}
    /\ handle \in {"unopened", "open", "closed"}
    /\ exc \in {"none", "OSError", "KeyboardInterrupt"}
    /\ exit \in {-1, 0, 1, 130}
    /\ n \in -1 .. IndexModulus - 1
    /\ clock \in 0 .. MaxClock
    /\ Len(buf) <= 1
====
